---- MODULE Spec2Model ----
(***************************************************************************)
(* The GLIMPSE module of MultiQC: the parser of GLIMPSE2_concordance        *)
(* "errors by sample" reports (err_spl.py) and the module glue that merges  *)
(* the parsed reports and counts what was found (glimpse.py).               *)
(*                                                                         *)
(* A Python str is a sequence of one-character strings, so that            *)
(* str.splitlines, str.strip, str.split, int and float are computed as     *)
(* Python computes them.  A Python dict is a function; its key set is the  *)
(* function's DOMAIN.  A raised exception is the name of its class.        *)
(***************************************************************************)
EXTENDS Integers, Sequences, FiniteSets, TLC

VARIABLES
  \* parse_err_spl_report(f)
  f_text,            \* f["f"], the content of the report handed to the parser
  lines,             \* lines = f["f"].splitlines()
  pc,                \* position in parse_err_spl_report
  examined,          \* how many elements of lines the function has read
  parsed_data,       \* the dict under construction
  result,            \* the returned dict (NoValue until the function returns)
  exc,               \* the exception propagated to the caller ("none" if none)
  warnings,          \* the logging.warning calls made, in order
  \* MultiqcModule.__init__ and parse_glimpse_err_spl
  files,             \* what find_log_files("glimpse/err_spl") yields, in order
  ignored,           \* the sample names ignore_samples strips
  mpc,               \* position in MultiqcModule.__init__
  nfile,             \* how many of files the for loop has processed
  data_by_sample,    \* the merged dict of parse_glimpse_err_spl
  data_sources,      \* the files passed to add_data_source, in order
  written,           \* the dict handed to write_data_file (NoValue before)
  table_arg,         \* the dict handed to summary_table (NoValue before)
  err_spl_ret,       \* what parse_glimpse_err_spl returned (NoValue before)
  err_grp_ret,       \* what parse_glimpse_err_grp returned (NoValue before)
  n_reports_found,   \* the counter of MultiqcModule.__init__
  general_stats,     \* TRUE once __init__ has called general_stats_addcols
  mexc               \* the exception that ended __init__ ("none" if none)

pvars == <<f_text, lines, pc, examined, parsed_data, result, exc, warnings>>
mvars == <<files, ignored, mpc, nfile, data_by_sample, data_sources, written,
           table_arg, err_spl_ret, err_grp_ret, n_reports_found,
           general_stats, mexc>>
vars == <<pvars, mvars>>

\* Bounds of the model
MaxLines == 3
MaxFiles == 2
MaxGrpReports == 1

NoValue == "NoValue"
EmptyDict == <<>>

Min(S) == CHOOSE x \in S : \A y \in S : x <= y
Max(S) == CHOOSE x \in S : \A y \in S : x >= y

(***************************************************************************)
(* Characters.  A character of Latin-1 is the one-character string of      *)
(* itself; a whitespace character beyond Latin-1 is named by its code      *)
(* point.  Decimal digits other than 0..9 are not characters of the model. *)
(***************************************************************************)

VT == ""      \* U+000B line tabulation
FF == "\f"      \* U+000C form feed
FS == ""      \* U+001C file separator
GS == ""      \* U+001D group separator
RS == ""      \* U+001E record separator
US == ""      \* U+001F unit separator
NEL == ""     \* U+0085 next line
NBSP == " "    \* U+00A0 no-break space

\* The line feed, which ends the lines of a report.
Newline == "\n"

\* The line boundaries of str.splitlines(); "\r\n" is one boundary.
LineBoundaries ==
  {Newline, "\r", VT, FF, FS, GS, RS, NEL, "U+2028", "U+2029"}

\* The characters str.strip() removes from both ends (those of str.isspace).
Whitespace ==
  {"\t", Newline, VT, FF, "\r", FS, GS, RS, US, " ", NEL, NBSP, "U+1680",
   "U+2000", "U+2001", "U+2002", "U+2003", "U+2004", "U+2005", "U+2006",
   "U+2007", "U+2008", "U+2009", "U+200A", "U+2028", "U+2029", "U+202F",
   "U+205F", "U+3000"}

\* The characters int() and float() skip at both ends of their argument:
\* the whitespace but the four separators U+001C..U+001F.
NumericWhitespace == Whitespace \ {FS, GS, RS, US}

(***************************************************************************)
(* str methods                                                             *)
(***************************************************************************)

\* str.splitlines(): the lines without their line breaks; a final line break
\* starts no further line, so "".splitlines() = [] and "a\n".splitlines() =
\* ["a"], while "\n".splitlines() = [""].
RECURSIVE splitlines(_)
splitlines(s) ==
  IF s = <<>> THEN <<>>
  ELSE LET breaks == {i \in 1..Len(s) : s[i] \in LineBoundaries}
           n == IF breaks = {} THEN Len(s) + 1 ELSE Min(breaks)
           crlf == n < Len(s) /\ s[n] = "\r" /\ s[n + 1] = Newline
           next == IF crlf THEN n + 2 ELSE n + 1
       IN <<SubSeq(s, 1, n - 1)>> \o splitlines(SubSeq(s, next, Len(s)))

\* s without the leading and trailing characters of the set ws.
StripChars(s, ws) ==
  LET keep == {i \in 1..Len(s) : s[i] \notin ws}
      last == CHOOSE i \in keep : \A j \in (i + 1)..Len(s) : s[j] \in ws
  IN IF keep = {} THEN <<>> ELSE SubSeq(s, Min(keep), last)

\* str.strip(): without the leading and trailing whitespace.
strip(s) == StripChars(s, Whitespace)

\* str.split(sep) with a one-character separator: every occurrence separates,
\* so two adjacent separators enclose an empty token and "".split(" ") = [""].
RECURSIVE split(_, _)
split(s, sep) ==
  LET hits == {i \in 1..Len(s) : s[i] = sep}
  IN IF hits = {} THEN <<s>>
     ELSE <<SubSeq(s, 1, Min(hits) - 1)>>
          \o split(SubSeq(s, Min(hits) + 1, Len(s)), sep)

(***************************************************************************)
(* int() and float() of a str                                              *)
(***************************************************************************)

Digits == {"0", "1", "2", "3", "4", "5", "6", "7", "8", "9"}

DigitValue(c) ==
  CASE c = "0" -> 0 [] c = "1" -> 1 [] c = "2" -> 2 [] c = "3" -> 3
    [] c = "4" -> 4 [] c = "5" -> 5 [] c = "6" -> 6 [] c = "7" -> 7
    [] c = "8" -> 8 [] c = "9" -> 9

\* The value of a sequence of decimal digits.
RECURSIVE DigitsValue(_)
DigitsValue(ds) ==
  IF ds = <<>> THEN 0
  ELSE 10 * DigitsValue(SubSeq(ds, 1, Len(ds) - 1)) + DigitValue(ds[Len(ds)])

HasSign(tok) == Len(tok) > 0 /\ tok[1] \in {"+", "-"}
Unsigned(tok) == IF HasSign(tok) THEN Tail(tok) ELSE tok
Sign(tok) == IF Len(tok) > 0 /\ tok[1] = "-" THEN -1 ELSE 1

\* Decimal digits, with single underscores between digits allowed.
DigitGroup(u) ==
  /\ Len(u) > 0
  /\ \A i \in 1..Len(u) : u[i] \in Digits \cup {"_"}
  /\ u[1] # "_"
  /\ u[Len(u)] # "_"
  /\ \A i \in 1..(Len(u) - 1) : ~(u[i] = "_" /\ u[i + 1] = "_")

IsDigit(c) == c \in Digits
DigitsOf(u) == SelectSeq(u, IsDigit)

\* sys.get_int_max_str_digits(): the most digits of a str that int() converts,
\* the default of the interpreter, which the program does not change.
int_max_str_digits == 4300

\* int(tok) succeeds: whitespace around, an optional sign and a digit group
\* of at most int_max_str_digits digits, the leading zeros counted and the
\* underscores not.  Otherwise int raises ValueError.
IntOk(tok) ==
  /\ DigitGroup(Unsigned(StripChars(tok, NumericWhitespace)))
  /\ Len(DigitsOf(Unsigned(StripChars(tok, NumericWhitespace))))
       <= int_max_str_digits

\* The digits without the leading zeros.
Significant(ds) ==
  LET nz == {i \in 1..Len(ds) : ds[i] # "0"}
  IN IF nz = {} THEN <<>> ELSE SubSeq(ds, Min(nz), Len(ds))

\* The most digits of an integer that is written as a number of the model;
\* an integer of more digits is written as its sign and its digits.
MaxIntDigits == 9

\* int(tok), for a token with IntOk(tok): Python integers have no bound.
int(tok) ==
  LET t == StripChars(tok, NumericWhitespace)
      ds == Significant(DigitsOf(Unsigned(t)))
  IN IF Len(ds) <= MaxIntDigits THEN Sign(t) * DigitsValue(ds)
     ELSE [sign |-> Sign(t), digits |-> ds]

\* The letters of "inf", "infinity" and "nan" in lower case.
LowerCase(c) ==
  CASE c = "I" -> "i" [] c = "N" -> "n" [] c = "F" -> "f" [] c = "T" -> "t"
    [] c = "Y" -> "y" [] c = "A" -> "a" [] OTHER -> c

Lowered(u) == [i \in 1..Len(u) |-> LowerCase(u[i])]

Inf == <<"i", "n", "f">>
Infinity == <<"i", "n", "f", "i", "n", "i", "t", "y">>
NaN == <<"n", "a", "n">>

\* The parts of an unsigned decimal literal: the digits before the point,
\* those after it, whether it has an exponent, and the exponent.
DecimalParts(u) ==
  LET es == {i \in 1..Len(u) : u[i] \in {"e", "E"}}
      e == IF es = {} THEN Len(u) + 1 ELSE Min(es)
      m == SubSeq(u, 1, e - 1)
      ps == {i \in 1..Len(m) : m[i] = "."}
      p == IF ps = {} THEN Len(m) + 1 ELSE Min(ps)
  IN [whole |-> SubSeq(m, 1, p - 1),
      frac |-> SubSeq(m, p + 1, Len(m)),
      hasExp |-> es # {},
      exponent |-> SubSeq(u, e + 1, Len(u))]

\* The most digits float() reads, of the digits after the point and of all
\* digits from the first that is not 0 on; and what it takes for an exponent
\* of more than MaxExponentDigits digits.
MAX_DIGITS == 1000000000
MAX_ABS_EXP == 1100000000
MaxExponentDigits == 9

\* float(tok) succeeds: whitespace around, an optional sign, and inf,
\* infinity or nan in any case, or digit groups around at most one point (one
\* of them may be missing) with an optional exponent of a sign and a digit
\* group, the digits no more than MAX_DIGITS.  Otherwise float raises
\* ValueError.
FloatOk(tok) ==
  LET u == Unsigned(StripChars(tok, NumericWhitespace))
      d == DecimalParts(u)
  IN \/ Lowered(u) \in {Inf, Infinity, NaN}
     \/ /\ d.whole = <<>> \/ DigitGroup(d.whole)
        /\ d.frac = <<>> \/ DigitGroup(d.frac)
        /\ d.whole # <<>> \/ d.frac # <<>>
        /\ d.hasExp => DigitGroup(Unsigned(d.exponent))
        /\ Len(DigitsOf(d.frac)) <= MAX_DIGITS
        /\ Len(Significant(DigitsOf(d.whole) \o DigitsOf(d.frac)))
             <= MAX_DIGITS

(***************************************************************************)
(* Natural numbers of any size, for the rounding float() does: a number is *)
(* the sequence of its digits in base LimbBase, the lowest first and the   *)
(* highest not 0; the empty sequence is 0.                                 *)
(***************************************************************************)

LimbBase == 10000
LimbDigits == 4

\* The largest power of 2 that a number is multiplied or divided by in one
\* pass: 2^17.
ChunkBits == 17

\* b^n (by squaring)
RECURSIVE Pow(_, _)
Pow(b, n) ==
  IF n = 0 THEN 1
  ELSE LET root == Pow(b, n \div 2)
       IN IF n % 2 = 0 THEN root * root ELSE root * root * b

\* The number a sequence of decimal digits without leading zeros denotes.
Limbs(ds) ==
  [i \in 1..((Len(ds) + LimbDigits - 1) \div LimbDigits) |->
     DigitsValue(SubSeq(ds, Max({1, Len(ds) - LimbDigits * i + 1}),
                        Len(ds) - LimbDigits * (i - 1)))]

\* x without its high limbs that are 0.
Trim(x) ==
  LET nz == {i \in 1..Len(x) : x[i] # 0}
  IN IF nz = {} THEN <<>> ELSE SubSeq(x, 1, Max(nz))

\* The limbs lo..hi of x times m, plus c: the limbs of the product and the
\* carry out of them.  (By halves, the carry of the lower half going into
\* the upper.)
RECURSIVE MulRange(_, _, _, _, _)
MulRange(x, m, lo, hi, c) ==
  IF lo = hi
    THEN LET t == x[lo] * m + c
         IN [q |-> <<t % LimbBase>>, c |-> t \div LimbBase]
  ELSE LET mid == (lo + hi) \div 2
           low == MulRange(x, m, lo, mid, c)
           high == MulRange(x, m, mid + 1, hi, low.c)
       IN [q |-> low.q \o high.q, c |-> high.c]

\* x * m, for m up to 2^ChunkBits.
MulSmall(x, m) ==
  IF x = <<>> THEN x
  ELSE LET p == MulRange(x, m, 1, Len(x), 0)
       IN p.q \o (IF p.c = 0 THEN <<>>
                  ELSE IF p.c < LimbBase THEN <<p.c>>
                  ELSE <<p.c % LimbBase, p.c \div LimbBase>>)

\* The limbs hi..lo of x, after a remainder r of higher limbs, divided by d:
\* the limbs of the quotient, the highest first, and the remainder.
RECURSIVE DivRange(_, _, _, _, _)
DivRange(x, d, lo, hi, r) ==
  IF lo = hi
    THEN LET t == r * LimbBase + x[lo]
         IN [q |-> <<t \div d>>, r |-> t % d]
  ELSE LET mid == (lo + hi) \div 2
           high == DivRange(x, d, mid + 1, hi, r)
           low == DivRange(x, d, lo, mid, high.r)
       IN [q |-> high.q \o low.q, r |-> low.r]

\* The quotient and the remainder of x by d, for d up to 2^ChunkBits.
DivSmall(x, d) ==
  IF x = <<>> THEN [q |-> x, r |-> 0]
  ELSE LET p == DivRange(x, d, 1, Len(x), 0)
       IN [q |-> Trim([i \in 1..Len(x) |-> p.q[Len(x) + 1 - i]]), r |-> p.r]

\* x * 2^n (by halves of n)
RECURSIVE MulPow2(_, _)
MulPow2(x, n) ==
  IF n <= ChunkBits THEN MulSmall(x, Pow(2, n))
  ELSE LET half == MulPow2(x, n \div 2)
       IN IF half = <<>> THEN half ELSE MulPow2(half, n - n \div 2)

\* x * 10^n
MulPow10(x, n) ==
  IF x = <<>> THEN x
  ELSE [i \in 1..(n \div LimbDigits) |-> 0]
       \o MulSmall(x, Pow(10, n % LimbDigits))

\* The quotient of x by 2^n (by halves of n), and whether the division left
\* a remainder (inexact), given whether an earlier one did.
RECURSIVE DivPow2(_, _, _)
DivPow2(x, n, inexact) ==
  IF n <= ChunkBits
    THEN LET d == DivSmall(x, Pow(2, n))
         IN [q |-> d.q, inexact |-> inexact \/ d.r # 0]
  ELSE LET high == DivPow2(x, n \div 2, inexact)
       IN IF high.q = <<>> THEN high
          ELSE DivPow2(high.q, n - n \div 2, high.inexact)

\* The quotient of x by 10^n, and whether the division left a remainder.
DivPow10(x, n) ==
  LET whole == Min({n \div LimbDigits, Len(x)})
      d == DivSmall(SubSeq(x, whole + 1, Len(x)), Pow(10, n % LimbDigits))
  IN [q |-> d.q,
      inexact |-> d.r # 0 \/ \E i \in 1..whole : x[i] # 0]

\* A number below LimbBase^2 as an integer.
Small(x) ==
  (IF Len(x) >= 1 THEN x[1] ELSE 0) + (IF Len(x) >= 2 THEN x[2] * LimbBase ELSE 0)

(***************************************************************************)
(* The doubles.  A finite double is sign * (hi * 2^HalfBits + lo) * 2^exp, *)
(* with 2^52 <= hi * 2^HalfBits + lo < 2^53 and -1074 <= exp <= 971        *)
(* (normal), or with a significand below 2^52 and exp = -1074 (subnormal;  *)
(* the zeros have exp 0 here).  Every double is written in one way, the    *)
(* sign of a zero and of a nan included, so that = is "the same double".   *)
(***************************************************************************)

\* The bits of lo.
HalfBits == 29

\* The bits of the significand of a normal double, and the exponents of
\* its lowest bit.
SignificandBits == 53
MinExp == -1074
MaxExp == 971

\* The decimal exponents from which on every number is rounded to infinity
\* (10^309 > 2^1024), and up to which every number is rounded to zero
\* (10^(-324) < 2^(-1075)).
InfTop == 309
ZeroTop == -325

\* log2(10), to six decimals, from below and from above.
Log2Of10Below == 3321928
Log2Of10Above == 3321929

Zero(sign) == [kind |-> "finite", sign |-> sign, hi |-> 0, lo |-> 0, exp |-> 0]
Infinite(sign) == [kind |-> "inf", sign |-> sign, hi |-> 0, lo |-> 0, exp |-> 0]
NotANumber(sign) == [kind |-> "nan", sign |-> sign, hi |-> 0, lo |-> 0, exp |-> 0]

\* The number of bits of a natural number below 2^HalfBits.
RECURSIVE Bits(_)
Bits(n) == IF n = 0 THEN 0 ELSE 1 + Bits(n \div 2)

\* A lower bound of floor(log2(10^top)).
Log2Floor(top) ==
  IF top >= 0 THEN (top * Log2Of10Below) \div 1000000
  ELSE -(((-top) * Log2Of10Above + 999999) \div 1000000)

\* The significand of q, a number below 2^(2 * HalfBits), in two halves.
Halves(q) ==
  LET low == DivSmall(q, Pow(2, ChunkBits))
      mid == DivSmall(low.q, Pow(2, ChunkBits))
      cut == Pow(2, HalfBits - ChunkBits)
  IN [hi |-> Small(mid.q) * Pow(2, 2 * ChunkBits - HalfBits)
               + mid.r \div cut,
      lo |-> (mid.r % cut) * Pow(2, ChunkBits) + low.r]

\* The double of the significand hi * 2^HalfBits + lo and the exponent exp,
\* one added to the significand where up: the carry out of the low half
\* goes to the high half, and a significand grown to 2^SignificandBits is
\* halved.
Carried(sign, hi, lo, up, exp) ==
  LET carry == up /\ lo + 1 = Pow(2, HalfBits)
      lo1 == IF carry THEN 0 ELSE IF up THEN lo + 1 ELSE lo
      hi1 == IF carry THEN hi + 1 ELSE hi
      grown == hi1 = Pow(2, SignificandBits - HalfBits)
  IN IF hi1 = 0 /\ lo1 = 0 THEN Zero(sign)
     ELSE IF (IF grown THEN exp + 1 ELSE exp) > MaxExp THEN Infinite(sign)
     ELSE [kind |-> "finite", sign |-> sign,
           hi |-> IF grown THEN hi1 \div 2 ELSE hi1, lo |-> lo1,
           exp |-> IF grown THEN exp + 1 ELSE exp]

\* The number of the halves h, its j lowest bits being away and the low half
\* of the rest lo: rounded to the nearest, a tie to the even significand.
RoundedBits(sign, h, j, away, lo, s, inexact) ==
  Carried(sign, h.hi \div Pow(2, j), lo,
          \/ away > Pow(2, j - 1)
          \/ away = Pow(2, j - 1) /\ (inexact \/ lo % 2 = 1),
          j - s)

\* The number of the halves h with its j lowest bits rounded away.
RoundedAt(sign, h, j, s, inexact) ==
  RoundedBits(sign, h, j, h.lo % Pow(2, j),
              h.lo \div Pow(2, j) + (h.hi % Pow(2, j)) * Pow(2, HalfBits - j),
              s, inexact)

\* The number of the halves h rounded to SignificandBits bits, or to fewer
\* where it has fewer than SignificandBits + 1.
RoundedHalves(sign, h, s, inexact) ==
  RoundedAt(sign, h, Max({1, Bits(h.hi) + HalfBits - SignificandBits}), s,
            inexact)

\* q / 2^s rounded to a double: q has at most 2 * HalfBits bits and at least
\* SignificandBits + 1 unless s = 1 - MinExp; inexact tells that q is the
\* integer part of a number that is no integer.  The j lowest bits of q are
\* rounded away, to the nearest, a tie to the even significand.
Rounded(sign, q, s, inexact) ==
  RoundedHalves(sign, Halves(q), s, inexact)

\* The double nearest to sign * ds * 10^e10 (a tie to the even significand),
\* for decimal digits ds without leading zeros: what float() returns.  The
\* number, which lies in [10^top, 10^(top + 1)), is scaled by 2^s, s such
\* that the integer part has 54 to 58 bits, or s = 1075 for the numbers so
\* small that the double is subnormal.
Double(sign, ds, e10) ==
  LET top == Len(ds) - 1 + e10
      s == Min({SignificandBits - Log2Floor(top), 1 - MinExp})
      scaled == IF e10 >= 0 THEN MulPow10(Limbs(ds), e10) ELSE Limbs(ds)
      num == IF s >= 0 THEN MulPow2(scaled, s) ELSE scaled
      dec == IF e10 < 0 THEN DivPow10(num, -e10)
             ELSE [q |-> num, inexact |-> FALSE]
      bin == IF s < 0 THEN DivPow2(dec.q, -s, dec.inexact) ELSE dec
  IN IF ds = <<>> THEN Zero(sign)
     ELSE IF top >= InfTop THEN Infinite(sign)
     ELSE IF top <= ZeroTop THEN Zero(sign)
     ELSE IF bin.q = <<>> THEN Zero(sign)
     ELSE Rounded(sign, bin.q, s, bin.inexact)

\* The exponent of a decimal literal, 0 if it has none: its value, and
\* MAX_ABS_EXP with its sign if it has more than MaxExponentDigits digits
\* after its leading zeros.
Exponent(d) ==
  LET xs == Significant(DigitsOf(Unsigned(d.exponent)))
  IN IF ~d.hasExp THEN 0
     ELSE IF Len(xs) > MaxExponentDigits THEN Sign(d.exponent) * MAX_ABS_EXP
     ELSE Sign(d.exponent) * DigitsValue(xs)

\* float(tok): the double nearest to the number the literal denotes, so
\* that float("100.000") = float("1e2") and float("3e-324") =
\* float("5e-324"), while float("-0.0") and float("0.0") are two doubles.
float(tok) ==
  LET t == StripChars(tok, NumericWhitespace)
      u == Unsigned(t)
      d == DecimalParts(u)
      digits == DigitsOf(d.whole) \o DigitsOf(d.frac)
  IN IF Lowered(u) \in {Inf, Infinity} THEN Infinite(Sign(t))
     ELSE IF Lowered(u) = NaN THEN NotANumber(Sign(t))
     ELSE Double(Sign(t), Significant(digits),
                 Exponent(d) - Len(DigitsOf(d.frac)))

\* Python's a == b of two floats: a nan equals nothing, not even itself, and
\* the two zeros are equal.
FloatEq(a, b) ==
  /\ a.kind # "nan"
  /\ b.kind # "nan"
  /\ \/ a = b
     \/ a = Zero(a.sign) /\ b = Zero(b.sign)

(***************************************************************************)
(* The header the parser expects, and lines of reports                     *)
(***************************************************************************)

\* expected_header = "#Genotype concordance by sample (SNPs)"
expected_header ==
  <<"#","G","e","n","o","t","y","p","e"," ","c","o","n","c","o","r","d","a",
     "n","c","e"," ","b","y"," ","s","a","m","p","l","e"," ","(","S","N","P",
     "s",")">>

\* "#Genotype concordance by sample (indels)"
HeaderIndels ==
  <<"#","G","e","n","o","t","y","p","e"," ","c","o","n","c","o","r","d","a",
     "n","c","e"," ","b","y"," ","s","a","m","p","l","e"," ","(","i","n","d",
     "e","l","s",")">>

\* "#Genotype concordance by sample (SNPs) "
HeaderTrailingSpace ==
  <<"#","G","e","n","o","t","y","p","e"," ","c","o","n","c","o","r","d","a",
     "n","c","e"," ","b","y"," ","s","a","m","p","l","e"," ","(","S","N","P",
     "s",")"," ">>

\* "#Genotype concordance by sample (SNPs)\r"
HeaderCarriageReturn ==
  <<"#","G","e","n","o","t","y","p","e"," ","c","o","n","c","o","r","d","a",
     "n","c","e"," ","b","y"," ","s","a","m","p","l","e"," ","(","S","N","P",
     "s",")","\r">>

\* "GCsS 0 NA12878 851 3 0 0 602 0 0 3 1 0 0.496 100.000 0.000 100.000 0.000008 0.000008"
LineSNPs ==
  <<"G","C","s","S"," ","0"," ","N","A","1","2","8","7","8"," ","8","5","1",
     " ","3"," ","0"," ","0"," ","6","0","2"," ","0"," ","0"," ","3"," ","1",
     " ","0"," ","0",".","4","9","6"," ","1","0","0",".","0","0","0"," ","0",
     ".","0","0","0"," ","1","0","0",".","0","0","0"," ","0",".","0","0","0",
     "0","0","8"," ","0",".","0","0","0","0","0","8">>

\* "GCsI 0 NA12878 0 0 0 0 0 0 0 0 0 0 0.000 0.000 0.000 0.000 0.000000 0.000000"
LineIndels ==
  <<"G","C","s","I"," ","0"," ","N","A","1","2","8","7","8"," ","0"," ","0",
     " ","0"," ","0"," ","0"," ","0"," ","0"," ","0"," ","0"," ","0"," ","0",
     ".","0","0","0"," ","0",".","0","0","0"," ","0",".","0","0","0"," ","0",
     ".","0","0","0"," ","0",".","0","0","0","0","0","0"," ","0",".","0","0",
     "0","0","0","0">>

\* "#GCsS 0 NA12878 851 3 0 0 602 0 0 3 1 0 0.496 100.000 0.000 100.000 0.000008 0.000008\r"
LineCommented ==
  <<"#","G","C","s","S"," ","0"," ","N","A","1","2","8","7","8"," ","8","5",
     "1"," ","3"," ","0"," ","0"," ","6","0","2"," ","0"," ","0"," ","3"," ",
     "1"," ","0"," ","0",".","4","9","6"," ","1","0","0",".","0","0","0"," ",
     "0",".","0","0","0"," ","1","0","0",".","0","0","0"," ","0",".","0","0",
     "0","0","0","8"," ","0",".","0","0","0","0","0","8","\r">>

\* "\t GCsV 1 HG002 1_2 \t7 5 2 9 4 3 6 8 -1 40.0 66.667 2.5e1 12345678901.5 inf .8 \xa0"
LinePadded ==
  <<"\t"," ","G","C","s","V"," ","1"," ","H","G","0","0","2"," ","1","_",
     "2"," ","\t","7"," ","5"," ","2"," ","9"," ","4"," ","3"," ","6"," ",
     "8"," ","-","1"," ","4","0",".","0"," ","6","6",".","6","6","7"," ","2",
     ".","5","e","1"," ","1","2","3","4","5","6","7","8","9","0","1",".","5",
     " ","i","n","f"," ",".","8"," ",NBSP>>

\* ""
LineBlank ==
  <<>>

\* " \xa0\t"
LineSpaces ==
  <<" ",NBSP,"\t">>

\* "GCsS 0 NA12878 851"
LineShort ==
  <<"G","C","s","S"," ","0"," ","N","A","1","2","8","7","8"," ","8","5","1">>

\* "GCsS 0  NA12878 851 3 0 0 602 0 0 3 1 0 0.496 100.000 0.000 100.000 0.000008 0.000008"
LineDoubleSpace ==
  <<"G","C","s","S"," ","0"," "," ","N","A","1","2","8","7","8"," ","8","5",
     "1"," ","3"," ","0"," ","0"," ","6","0","2"," ","0"," ","0"," ","3"," ",
     "1"," ","0"," ","0",".","4","9","6"," ","1","0","0",".","0","0","0"," ",
     "0",".","0","0","0"," ","1","0","0",".","0","0","0"," ","0",".","0","0",
     "0","0","0","8"," ","0",".","0","0","0","0","0","8">>

\* The line of LineSNPs with a count of int_max_str_digits + 1 digits for
\* "851": "GCsS 0 NA12878 111...1 3 0 0 602 ...".
LineLongInt ==
  SubSeq(LineSNPs, 1, 15) \o [i \in 1..(int_max_str_digits + 1) |-> "1"]
    \o SubSeq(LineSNPs, 19, Len(LineSNPs))

\* "GCsI 0 HG003 0 0 x 0 0 0 0 0 0 0 0.0 0.0 0.0 0.0 0.0 0.0"
LineBadInt ==
  <<"G","C","s","I"," ","0"," ","H","G","0","0","3"," ","0"," ","0"," ","x",
     " ","0"," ","0"," ","0"," ","0"," ","0"," ","0"," ","0"," ","0",".","0",
     " ","0",".","0"," ","0",".","0"," ","0",".","0"," ","0",".","0"," ","0",
     ".","0">>

\* "GCsI 0 HG003 0 0 0 0 0 0 0 0 0 0 0.0 NA 0.0 0.0 0.0 0.0"
LineBadFloat ==
  <<"G","C","s","I"," ","0"," ","H","G","0","0","3"," ","0"," ","0"," ","0",
     " ","0"," ","0"," ","0"," ","0"," ","0"," ","0"," ","0"," ","0",".","0",
     " ","N","A"," ","0",".","0"," ","0",".","0"," ","0",".","0"," ","0",".",
     "0">>

\* "GCsI x HG003 0 0 0 0 0 0 0 0 0 0 0.0 0.0 0.0 0.0 0.0 0.0"
LineBadBins ==
  <<"G","C","s","I"," ","x"," ","H","G","0","0","3"," ","0"," ","0"," ","0",
     " ","0"," ","0"," ","0"," ","0"," ","0"," ","0"," ","0"," ","0",".","0",
     " ","0",".","0"," ","0",".","0"," ","0",".","0"," ","0",".","0"," ","0",
     ".","0">>

(***************************************************************************)
(* parse_err_spl_report                                                    *)
(***************************************************************************)

\* The column names of a report; the parser uses their number only.
EXPECTED_COLUMNS ==
  << "#GCsS", "id", "sample_name", "#val_gt_RR", "#val_gt_RA", "#val_gt_AA",
     "#filtered_gp", "RR_hom_matches", "RA_het_matches", "AA_hom_matches",
     "RR_hom_mismatches", "RA_het_mismatches", "AA_hom_mismatches",
     "RR_hom_mismatches_rate_percent", "RA_het_mismatches_rate_percent",
     "AA_hom_mimatches", "non_reference_discordanc_rate_percent",
     "best_gt_rsquared", "imputed_ds_rsquared" >>

\* The number of targets of the unpacking assignment "variants, bins,
\* sample_name, ..., imputed_ds_rsquared = fields".
UnpackTargets == 19

\* The header test as a test of the part all section headers share
\* ("#Genotype concordance by sample"), as lines[0].startswith would do.
HeaderMatchesPrefix(line) ==
  /\ Len(line) >= 31
  /\ SubSeq(line, 1, 31) = SubSeq(expected_header, 1, 31)

\* The header test: "lines[0] != expected_header" is false.
HeaderMatches(line) == line = expected_header

\* The test "fields[0][0] == '#'"; indexing the empty str raises IndexError.
FirstCharRaises(fields) == fields[1] = <<>>
IsComment(fields) == fields[1][1] = "#"

\* The positions (counted from 1) of the tokens passed to int and to float.
IntPositions == {2} \cup (4..13)
FloatPositions == 14..19

\* Every conversion of the dict(...) call succeeds; the first that fails
\* raises ValueError.
ConversionsOk(fields) ==
  /\ \A p \in IntPositions : IntOk(fields[p])
  /\ \A p \in FloatPositions : FloatOk(fields[p])

\* The dict(...) built from the unpacked tokens, with two tokens exchanged.
RecordSwapped(fields) ==
  [ variants |-> fields[1],
    bins |-> int(fields[2]),
    val_gt_RR |-> int(fields[4]),
    val_gt_RA |-> int(fields[5]),
    val_gt_AA |-> int(fields[6]),
    filtered_gp |-> int(fields[7]),
    RR_hom_matches |-> int(fields[8]),
    RA_het_matches |-> int(fields[9]),
    AA_hom_matches |-> int(fields[10]),
    RR_hom_mismatches |-> int(fields[12]),
    RA_het_mismatches |-> int(fields[11]),
    AA_hom_mismatches |-> int(fields[13]),
    RR_hom_mismatches_rate_percent |-> float(fields[14]),
    RA_het_mismatches_rate_percent |-> float(fields[15]),
    AA_hom_mismatches_rate_percent |-> float(fields[16]),
    non_reference_discordanc_rate_percent |-> float(fields[17]),
    best_gt_rsquared |-> float(fields[18]),
    imputed_ds_rsquared |-> float(fields[19]) ]

\* The dict(...) built from the unpacked tokens; sample_name (fields[3]) is
\* the key and not a value.
Record(fields) ==
  [ variants |-> fields[1],
    bins |-> int(fields[2]),
    val_gt_RR |-> int(fields[4]),
    val_gt_RA |-> int(fields[5]),
    val_gt_AA |-> int(fields[6]),
    filtered_gp |-> int(fields[7]),
    RR_hom_matches |-> int(fields[8]),
    RA_het_matches |-> int(fields[9]),
    AA_hom_matches |-> int(fields[10]),
    RR_hom_mismatches |-> int(fields[11]),
    RA_het_mismatches |-> int(fields[12]),
    AA_hom_mismatches |-> int(fields[13]),
    RR_hom_mismatches_rate_percent |-> float(fields[14]),
    RA_het_mismatches_rate_percent |-> float(fields[15]),
    AA_hom_mismatches_rate_percent |-> float(fields[16]),
    non_reference_discordanc_rate_percent |-> float(fields[17]),
    best_gt_rsquared |-> float(fields[18]),
    imputed_ds_rsquared |-> float(fields[19]) ]

\* "parsed_data[sample_name] = dict(...)", keeping an entry already there.
StoreIfAbsent(parsed, key, rec) ==
  [k \in DOMAIN parsed \cup {key} |->
     IF k \in DOMAIN parsed THEN parsed[k] ELSE rec]

\* "parsed_data[sample_name] = dict(...)".
Store(parsed, key, rec) ==
  [k \in DOMAIN parsed \cup {key} |-> IF k = key THEN rec ELSE parsed[k]]

\* One iteration of "for line in lines[1:]": the exception it raises (or
\* "none"), the dict after it, and whether it logged the field-count warning.
\* The warning has no continue after it, so a line with another number of
\* fields goes on to the unpacking, which raises ValueError.
LoopBody(parsed, line) ==
  LET fields == split(strip(line), " ")
      warned == Len(fields) # Len(EXPECTED_COLUMNS)
  IN IF FirstCharRaises(fields)
       THEN [exc |-> "IndexError", data |-> parsed, warned |-> FALSE]
     ELSE IF IsComment(fields)
       THEN [exc |-> "none", data |-> parsed, warned |-> FALSE]
     ELSE IF Len(fields) # UnpackTargets \/ ~ConversionsOk(fields)
       THEN [exc |-> "ValueError", data |-> parsed, warned |-> warned]
     ELSE [exc |-> "none", data |-> Store(parsed, fields[3], Record(fields)),
           warned |-> warned]

\* The for loop from line i on.
RECURSIVE LoopFrom(_, _, _)
LoopFrom(ls, i, parsed) ==
  IF i > Len(ls) THEN [exc |-> "none", data |-> parsed]
  ELSE LET r == LoopBody(parsed, ls[i])
       IN IF r.exc # "none" THEN [exc |-> r.exc, data |-> NoValue]
          ELSE LoopFrom(ls, i + 1, r.data)

\* The whole function: the exception it raises (or "none") and the dict it
\* returns.  lines[0] of an empty list raises IndexError.
parse_err_spl_report(text) ==
  LET ls == splitlines(text)
  IN IF Len(ls) = 0 THEN [exc |-> "IndexError", data |-> NoValue]
     ELSE IF ~HeaderMatches(ls[1]) THEN [exc |-> "none", data |-> EmptyDict]
     ELSE LoopFrom(ls, 2, EmptyDict)

(***************************************************************************)
(* The reports the parser is run on                                        *)
(***************************************************************************)

\* The lines a report may start with, and the lines that may follow.
FirstLines ==
  {expected_header, HeaderIndels, HeaderTrailingSpace, HeaderCarriageReturn,
   LineSNPs, LineBlank}

BodyLines ==
  {HeaderIndels, LineCommented, LineSNPs, LineIndels, LinePadded, LineBlank,
   LineSpaces, LineShort, LineDoubleSpace, LineBadInt, LineLongInt,
   LineBadFloat, LineBadBins}

\* The text of a file with the given lines.
RECURSIVE JoinLines(_)
JoinLines(ls) ==
  IF ls = <<>> THEN <<>>
  ELSE IF Len(ls) = 1 THEN ls[1]
  ELSE ls[1] \o <<Newline>> \o JoinLines(Tail(ls))

\* The empty file and every file of 1..MaxLines lines of the two sets.
Texts ==
  {<<>>} \cup
  UNION { {JoinLines(<<first>> \o rest) :
             first \in FirstLines, rest \in [1..(n - 1) -> BodyLines]} :
          n \in 1..MaxLines }

(***************************************************************************)
(* parse_err_spl_report, statement by statement                            *)
(***************************************************************************)

ParserIdle ==
  /\ f_text = <<>> /\ lines = <<>> /\ pc = "idle" /\ examined = 0
  /\ parsed_data = EmptyDict /\ result = NoValue /\ exc = "none"
  /\ warnings = <<>>

ModuleIdle ==
  /\ files = <<>> /\ ignored = {} /\ mpc = "idle" /\ nfile = 0
  /\ data_by_sample = EmptyDict /\ data_sources = <<>> /\ written = NoValue
  /\ table_arg = NoValue /\ err_spl_ret = NoValue /\ err_grp_ret = NoValue
  /\ n_reports_found = 0 /\ general_stats = FALSE /\ mexc = "none"

\* Before err_spl.py is loaded; f is the file the parser will be called on.
ParserInit ==
  /\ f_text \in Texts
  /\ lines = <<>> /\ pc = "import" /\ examined = 0
  /\ parsed_data = EmptyDict /\ result = NoValue /\ exc = "none"
  /\ warnings = <<>>
  /\ ModuleIdle

\* def parse_err_spl_report(f) -> Dict[str, Dict[str, Union[int, float]]]:
\* err_spl.py imports neither Dict nor Union.  An interpreter that evaluates
\* the annotation when it runs the def statement (Python before 3.14) raises
\* NameError there, so that the module is not loaded and the function never
\* called; one that defers annotations (Python 3.14 on) defines the function.
DefineParser ==
  /\ pc = "import"
  /\ \/ pc' = "start" /\ UNCHANGED exc
     \/ pc' = "import_error" /\ exc' = "NameError"
  /\ UNCHANGED <<f_text, lines, examined, parsed_data, result, warnings,
                 mvars>>

\* parsed_data = {}; lines = f["f"].splitlines()
SplitLines ==
  /\ pc = "start"
  /\ lines' = splitlines(f_text)
  /\ pc' = "header"
  /\ UNCHANGED <<f_text, examined, parsed_data, result, exc, warnings, mvars>>

\* if lines[0] != expected_header: logging.warning(...); return {}
CheckHeader ==
  /\ pc = "header"
  /\ IF Len(lines) = 0
       THEN /\ exc' = "IndexError"
            /\ pc' = "raised"
            /\ UNCHANGED <<examined, result, warnings>>
     ELSE IF ~HeaderMatches(lines[1])
       THEN /\ warnings' = Append(warnings, "header")
            /\ result' = EmptyDict
            /\ pc' = "returned"
            /\ examined' = 1
            /\ UNCHANGED exc
     ELSE /\ pc' = "loop"
          /\ examined' = 1
          /\ UNCHANGED <<result, exc, warnings>>
  /\ UNCHANGED <<f_text, lines, parsed_data, mvars>>

\* What the iteration leaves, r being what the body of the loop did.
Iterated(r) ==
  /\ examined' = examined + 1
  /\ warnings' = IF r.warned THEN Append(warnings, "fields") ELSE warnings
  /\ parsed_data' = r.data
  /\ exc' = r.exc
  /\ pc' = IF r.exc # "none" THEN "raised" ELSE "loop"

\* for line in lines[1:]: one iteration
Iterate ==
  /\ pc = "loop"
  /\ examined < Len(lines)
  /\ Iterated(LoopBody(parsed_data, lines[examined + 1]))
  /\ UNCHANGED <<f_text, lines, result, mvars>>

\* return parsed_data
Return ==
  /\ pc = "loop"
  /\ examined = Len(lines)
  /\ result' = parsed_data
  /\ pc' = "returned"
  /\ UNCHANGED <<f_text, lines, examined, parsed_data, exc, warnings, mvars>>

ParserNext == DefineParser \/ SplitLines \/ CheckHeader \/ Iterate \/ Return

Spec == ParserInit /\ [][ParserNext]_vars

(***************************************************************************)
(* MultiqcModule.__init__ and ErrSplReportMixin.parse_glimpse_err_spl      *)
(***************************************************************************)

\* The initial value of n_reports_found.
InitialReportsFound == 1

\* The sample names find_log_files gives the files it yields.
SNames == {"S1", "S2"}

\* The contents of the files find_log_files yields.
ModuleTexts ==
  { <<>>,
    expected_header,
    JoinLines(<<expected_header, LineSNPs>>),
    JoinLines(<<expected_header, LineCommented, LineIndels>>),
    JoinLines(<<expected_header, LineShort>>),
    JoinLines(<<expected_header, LineLongInt>>) }

\* A log file as find_log_files yields it: f["s_name"] and f["f"].
LogFiles == [s_name : SNames, f : ModuleTexts]

LogFileSeqs == UNION { [1..n -> LogFiles] : n \in 0..MaxFiles }

\* The body of "if len(metrics) > 0:" run for every file, empty or not.
MergeDataUnguarded(data, f, metrics) ==
  [k \in DOMAIN data \cup {f.s_name} |->
     IF k = f.s_name THEN metrics ELSE data[k]]

\* if len(metrics) > 0: data_by_sample[f["s_name"]] = metrics
MergeData(data, f, metrics) ==
  IF metrics # EmptyDict
    THEN [k \in DOMAIN data \cup {f.s_name} |->
            IF k = f.s_name THEN metrics ELSE data[k]]
  ELSE data

\* if len(metrics) > 0: self.add_data_source(f, section="err_spl")
MergeSources(sources, f, metrics) ==
  IF metrics # EmptyDict THEN Append(sources, f) ELSE sources

\* self.ignore_samples(data): data without the ignored sample names.
ignore_samples(data) == [k \in DOMAIN data \ ignored |-> data[k]]

\* Before glimpse.py is loaded; files are what find_log_files will yield.
ModuleInit ==
  /\ files \in LogFileSeqs
  /\ ignored \in SUBSET SNames
  /\ mpc = "import" /\ nfile = 0
  /\ data_by_sample = EmptyDict /\ data_sources = <<>> /\ written = NoValue
  /\ table_arg = NoValue /\ err_spl_ret = NoValue /\ err_grp_ret = NoValue
  /\ n_reports_found = 0 /\ general_stats = FALSE /\ mexc = "none"
  /\ ParserIdle

\* from .err_spl import ErrSplReportMixin: runs err_spl.py, whose def of
\* parse_err_spl_report raises NameError where annotations are evaluated at
\* the definition; then MultiqcModule is never defined.
ImportErrSpl ==
  /\ mpc = "import"
  /\ \/ mpc' = "init" /\ UNCHANGED mexc
     \/ mpc' = "import_error" /\ mexc' = "NameError"
  /\ UNCHANGED <<files, ignored, nfile, data_by_sample, data_sources, written,
                 table_arg, err_spl_ret, err_grp_ret, n_reports_found,
                 general_stats, pvars>>

\* __init__ up to "n_reports_found = 1", and "data_by_sample = dict()"
Construct ==
  /\ mpc = "init"
  /\ n_reports_found' = InitialReportsFound
  /\ data_by_sample' = EmptyDict
  /\ mpc' = "err_spl_loop"
  /\ UNCHANGED <<files, ignored, nfile, data_sources, written, table_arg,
                 err_spl_ret, err_grp_ret, general_stats, mexc, pvars>>

\* The rest of the iteration for the file f, r being what
\* parse_err_spl_report did on its content.
Processed(f, r) ==
  IF r.exc # "none"
    THEN /\ mexc' = r.exc
         /\ mpc' = "raised"
         /\ UNCHANGED <<nfile, data_by_sample, data_sources>>
  ELSE /\ data_by_sample' = MergeData(data_by_sample, f, r.data)
       /\ data_sources' = MergeSources(data_sources, f, r.data)
       /\ nfile' = nfile + 1
       /\ UNCHANGED <<mexc, mpc>>

\* for f in self.find_log_files("glimpse/err_spl"): one iteration.  An
\* exception of parse_err_spl_report is caught nowhere and ends __init__.
ProcessFile ==
  /\ mpc = "err_spl_loop"
  /\ nfile < Len(files)
  /\ Processed(files[nfile + 1], parse_err_spl_report(files[nfile + 1].f))
  /\ UNCHANGED <<files, ignored, written, table_arg, err_spl_ret, err_grp_ret,
                 n_reports_found, general_stats, pvars>>

\* data_by_sample = self.ignore_samples(data_by_sample)
\* if len(data_by_sample) == 0: return 0
FilterIgnored ==
  /\ mpc = "err_spl_loop"
  /\ nfile = Len(files)
  /\ data_by_sample' = ignore_samples(data_by_sample)
  /\ IF ignore_samples(data_by_sample) = EmptyDict
       THEN /\ err_spl_ret' = 0
            /\ n_reports_found' = n_reports_found + 0
            /\ mpc' = "err_grp"
     ELSE /\ mpc' = "write"
          /\ UNCHANGED <<err_spl_ret, n_reports_found>>
  /\ UNCHANGED <<files, ignored, nfile, data_sources, written, table_arg,
                 err_grp_ret, general_stats, mexc, pvars>>

\* self.add_software_version(None)
\* self.write_data_file(data_by_sample, "multiqc_glimpse_err_spl")
WriteDataFile ==
  /\ mpc = "write"
  /\ written' = data_by_sample
  /\ mpc' = "table"
  /\ UNCHANGED <<files, ignored, nfile, data_by_sample, data_sources,
                 table_arg, err_spl_ret, err_grp_ret, n_reports_found,
                 general_stats, mexc, pvars>>

\* self.summary_table(data_by_sample): its add_section call evaluates
\* table.plot(..., copy.deepcopy(headers), ...), and err_spl.py binds neither
\* table nor copy, so the call raises NameError, which ends __init__.
SummaryTable ==
  /\ mpc = "table"
  /\ table_arg' = data_by_sample
  /\ mexc' = "NameError"
  /\ mpc' = "raised"
  /\ UNCHANGED <<files, ignored, nfile, data_by_sample, data_sources, written,
                 err_spl_ret, err_grp_ret, n_reports_found, general_stats,
                 pvars>>

\* What parse_glimpse_err_grp may return: the number of reports it found.
ErrGrpCounts == 0..MaxGrpReports

\* n_reports_found += self.parse_glimpse_err_grp()
ParseErrGrp ==
  /\ mpc = "err_grp"
  /\ \E n \in ErrGrpCounts :
       /\ err_grp_ret' = n
       /\ n_reports_found' = n_reports_found + n
  /\ mpc' = "count_test"
  /\ UNCHANGED <<files, ignored, nfile, data_by_sample, data_sources, written,
                 table_arg, err_spl_ret, general_stats, mexc, pvars>>

\* if n_reports_found == 0: raise ModuleNoSamplesFound
CheckFound ==
  /\ mpc = "count_test"
  /\ IF n_reports_found = 0
       THEN mexc' = "ModuleNoSamplesFound" /\ mpc' = "raised"
     ELSE mpc' = "stats" /\ UNCHANGED mexc
  /\ UNCHANGED <<files, ignored, nfile, data_by_sample, data_sources, written,
                 table_arg, err_spl_ret, err_grp_ret, n_reports_found,
                 general_stats, pvars>>

\* self.general_stats_addcols(self.general_stats_data, self.general_stats_headers)
GeneralStatsAddcols ==
  /\ mpc = "stats"
  /\ general_stats' = TRUE
  /\ mpc' = "done"
  /\ UNCHANGED <<files, ignored, nfile, data_by_sample, data_sources, written,
                 table_arg, err_spl_ret, err_grp_ret, n_reports_found, mexc,
                 pvars>>

ModuleNext ==
  \/ ImportErrSpl \/ Construct \/ ProcessFile \/ FilterIgnored \/ WriteDataFile
  \/ SummaryTable \/ ParseErrGrp \/ CheckFound \/ GeneralStatsAddcols

ModuleSpec == ModuleInit /\ [][ModuleNext]_vars

(***************************************************************************)
(* The rendering configuration                                             *)
(***************************************************************************)

\* The keys of the headers dict of summary_table.
SummaryTableHeaders ==
  { "variants", "bins", "val_gt_RR", "val_gt_RA", "val_gt_AA", "filtered_gp",
    "RR_hom_matches", "RA_het_matches", "AA_hom_matches",
    "RR_hom_mismatches", "RA_het_mismatches", "AA_hom_mismatches",
    "RR_hom_mismatches_rate_percent", "RA_het_mismatches_rate_percent",
    "AA_hom_mimatches", "non_reference_discordanc_rate_percent",
    "best_gt_rsquared", "imputed_ds_rsquared" }

\* The names of the data_labels of accuracy_by_sample.
AccuracyDataLabels ==
  { "RR_hom_mismatches_rate_percent", "RA_het_mismatches_rate_percent",
    "AA_hom_mismatches_rate_percent", "non_reference_discordanc_rate_percent",
    "best_gt_rsquared", "imputed_ds_rsquared" }

(***************************************************************************)
(* What the properties speak of                                            *)
(***************************************************************************)

\* The 18 fields of a record, in the order of the columns they come from.
SchemaOrder ==
  << "variants", "bins", "val_gt_RR", "val_gt_RA", "val_gt_AA", "filtered_gp",
     "RR_hom_matches", "RA_het_matches", "AA_hom_matches",
     "RR_hom_mismatches", "RA_het_mismatches", "AA_hom_mismatches",
     "RR_hom_mismatches_rate_percent", "RA_het_mismatches_rate_percent",
     "AA_hom_mismatches_rate_percent",
     "non_reference_discordanc_rate_percent", "best_gt_rsquared",
     "imputed_ds_rsquared" >>

SchemaFields == {SchemaOrder[j] : j \in 1..Len(SchemaOrder)}

\* v is one record: its keys are exactly the fields of the schema.
IsRecord(v) ==
  /\ Cardinality(DOMAIN v) = Cardinality(SchemaFields)
  /\ DOMAIN v = SchemaFields

\* The tokens of a line: stripped, then split at every single space.
Tokens(line) == split(strip(line), " ")

\* Token j of the line, counted from 0 as the columns are.
Token(line, j) == Tokens(line)[j + 1]

CommentLine(line) ==
  /\ Token(line, 0) # <<>>
  /\ Token(line, 0)[1] = "#"

\* A data line: 19 tokens, no comment, integer tokens in the columns of
\* intCols and numeric tokens in columns 13..18.
DataLine(line, intCols) ==
  LET toks == Tokens(line)
  IN /\ Len(toks) = 19
     /\ ~CommentLine(line)
     /\ \A j \in intCols : IntOk(toks[j + 1])
     /\ \A j \in 13..18 : FloatOk(toks[j + 1])

\* The integer columns: the ten counts, and with the bin index.
CountColumns == 3..12
IntegerColumns == {1} \cup CountColumns

\* The report starts with the header and goes on with comment lines and
\* data lines only.
WellFormedReport(intCols) ==
  /\ Len(lines) >= 1
  /\ lines[1] = expected_header
  /\ \A i \in 2..Len(lines) :
       CommentLine(lines[i]) \/ DataLine(lines[i], intCols)

\* The lines (by index) that are data lines, and their sample names.
DataLines(intCols) ==
  {i \in 2..Len(lines) : DataLine(lines[i], intCols)}

\* rec has the 18 fields, field j holding the value of the column it comes
\* from: column 0 as text, columns 1 and 3..12 as integers, 13..18 as numbers.
RecordOfLine(rec, line) ==
  LET toks == Tokens(line)
  IN /\ IsRecord(rec)
     /\ rec[SchemaOrder[1]] = toks[1]
     /\ rec[SchemaOrder[2]] = int(toks[2])
     /\ \A j \in 3..12 : rec[SchemaOrder[j]] = int(toks[j + 1])
     /\ \A j \in 13..18 : rec[SchemaOrder[j]] = float(toks[j + 1])

Finished == pc \in {"returned", "raised"}

\* What a well-formed report must parse to.
ParsedAsSchema(intCols) ==
  /\ pc = "returned"
  /\ exc = "none"
  /\ warnings = <<>>
  /\ DOMAIN result = {Token(lines[i], 2) : i \in DataLines(intCols)}
  /\ \A k \in DOMAIN result :
       \E i \in DataLines(intCols) :
         Token(lines[i], 2) = k /\ RecordOfLine(result[k], lines[i])

(***************************************************************************)
(* Properties of parse_err_spl_report (specification Spec)                 *)
(***************************************************************************)

\* C1 as stated: a report of the header, comment lines and 19-token data
\* lines with integers in the ten count columns and numbers in the six rate
\* columns parses to one record per sample name, the fields by position.
\* A bin index that is no integer is such a line, and int(bins) raises.
C1_AsStated ==
  (Finished /\ WellFormedReport(CountColumns)) => ParsedAsSchema(CountColumns)

\* C1, amended: the same with integers in all eleven integer columns, the
\* bin index (column 1) and the ten counts (columns 3..12).
C1_WellFormedReportParsed ==
  (Finished /\ WellFormedReport(IntegerColumns))
    => ParsedAsSchema(IntegerColumns)

\* A well-formed report with a comment line and a data line has returned.
C1_Witness ==
  /\ pc = "returned"
  /\ WellFormedReport(IntegerColumns)
  /\ \E i \in 2..Len(lines) : CommentLine(lines[i])
  /\ DataLines(IntegerColumns) # {}
  /\ result # EmptyDict

\* A line that is not blank, is no comment and has another number of tokens
\* than 19.
WrongCountLine(line) ==
  /\ Token(line, 0) # <<>>
  /\ ~CommentLine(line)
  /\ Len(Tokens(line)) # 19

\* C2: a line after the header that is no comment and has another number of
\* tokens than 19 is dropped, the parse goes on, and every well-formed data
\* line of the file is in the returned mapping.  (Stated for reports whose
\* other lines are comments and well-formed data lines, and whose lines with
\* another number of tokens are not blank.)
C2_WrongCountLineDropped ==
  (/\ Finished
   /\ Len(lines) >= 1
   /\ lines[1] = expected_header
   /\ \E i \in 2..Len(lines) : WrongCountLine(lines[i])
   /\ \A i \in 2..Len(lines) :
        \/ CommentLine(lines[i])
        \/ DataLine(lines[i], IntegerColumns)
        \/ WrongCountLine(lines[i]))
  => (/\ pc = "returned"
      /\ DOMAIN result = {Token(lines[i], 2) : i \in DataLines(IntegerColumns)})

\* C3: whatever the text, the function returns a mapping; no exception
\* reaches the caller.  (Stated for texts of at least one line; the empty
\* text is the case of C5.)
C3_NeverRaises == Len(lines) >= 1 => (exc = "none" /\ pc # "raised")

\* C4: when the first line is not the header, the function returns the
\* empty mapping and has read no line but the first.
C4_HeaderMismatchReturnsEmpty ==
  (Finished /\ Len(lines) >= 1 /\ lines[1] # expected_header)
    => (/\ pc = "returned"
        /\ exc = "none"
        /\ result = EmptyDict
        /\ examined = 1)

\* A report that starts with the header followed by a space, then a data
\* line and a short line, has returned.
C4_Witness ==
  /\ pc = "returned"
  /\ lines = <<HeaderTrailingSpace, LineSNPs, LineShort>>

\* C5: for the empty text the function logs a diagnostic and returns the
\* empty mapping.
C5_EmptyTextReturnsEmpty ==
  (Finished /\ f_text = <<>>)
    => (pc = "returned" /\ result = EmptyDict /\ Len(warnings) > 0)

\* C6: when several well-formed data lines carry one sample name, the
\* returned mapping holds for that name the record of the last of them.
C6_LastDuplicateWins ==
  (pc = "returned" /\ Len(lines) >= 1 /\ lines[1] = expected_header)
    => \A i \in DataLines(IntegerColumns) :
         \A j \in DataLines(IntegerColumns) :
           (/\ i < j
            /\ Token(lines[i], 2) = Token(lines[j], 2)
            /\ \A m \in DataLines(IntegerColumns) :
                 Token(lines[m], 2) = Token(lines[j], 2) => m <= j)
           => (/\ Token(lines[j], 2) \in DOMAIN result
               /\ RecordOfLine(result[Token(lines[j], 2)], lines[j]))

\* The SNPs line and then the indels line of one sample have been parsed.
C6_Witness ==
  /\ pc = "returned"
  /\ lines = <<expected_header, LineSNPs, LineIndels>>
  /\ DOMAIN result = {Token(LineSNPs, 2)}

\* C8: every name of the rendering configuration is a field of the records
\* the parser stores, and every field has a summary_table header.
C8_ConfigNamesAreRecordFields ==
  \A k \in DOMAIN parsed_data :
    /\ SummaryTableHeaders \cup AccuracyDataLabels \subseteq DOMAIN parsed_data[k]
    /\ DOMAIN parsed_data[k] \subseteq SummaryTableHeaders

(***************************************************************************)
(* Properties of the module (specification ModuleSpec)                     *)
(***************************************************************************)

\* summary_table has been called, and has raised.
TableCalled == mpc = "raised" /\ mexc = "NameError"

\* write_data_file has been called (summary_table is called right after).
HandedOver == mpc = "table" \/ TableCalled

\* C7: every value of the mapping handed to write_data_file and to
\* summary_table is one record of the 18 fields, not a mapping of records.
C7_HandedValuesAreRecords ==
  /\ HandedOver => \A s \in DOMAIN written : IsRecord(written[s])
  /\ TableCalled => \A s \in DOMAIN table_arg : IsRecord(table_arg[s])

\* C9: when both submodules return 0 the construction raises
\* ModuleNoSamplesFound and does not call general_stats_addcols, which is
\* reached only when a submodule returned a positive count.
C9_NothingFoundRaises ==
  /\ (/\ mpc \in {"stats", "done"} \/ mexc = "ModuleNoSamplesFound"
      /\ err_spl_ret = 0
      /\ err_grp_ret = 0)
     => (mexc = "ModuleNoSamplesFound" /\ ~general_stats)
  /\ mpc \in {"stats", "done"} => (err_spl_ret > 0 \/ err_grp_ret > 0)

\* The parse results of the files the loop has processed.
Metrics == [i \in 1..nfile |-> parse_err_spl_report(files[i].f).data]

\* C10: in the loop of parse_glimpse_err_spl the merged mapping has an entry
\* for a name exactly when a processed file of that name parsed to a
\* non-empty mapping, the entry is the parse result of the last such file,
\* and the data sources are those files, in order.
C10_MergeKeepsLastNonEmpty ==
  mpc = "err_spl_loop" =>
    LET metrics == Metrics
        nonEmpty == {i \in 1..nfile : metrics[i] # EmptyDict}
        RegisteredUpTo[i \in 0..nfile] ==
          IF i = 0 THEN <<>>
          ELSE IF i \in nonEmpty THEN Append(RegisteredUpTo[i - 1], files[i])
          ELSE RegisteredUpTo[i - 1]
    IN /\ DOMAIN data_by_sample = {files[i].s_name : i \in nonEmpty}
       /\ \A s \in DOMAIN data_by_sample :
            data_by_sample[s] =
              metrics[Max({i \in nonEmpty : files[i].s_name = s})]
       /\ data_sources = RegisteredUpTo[nfile]

\* Two files of one name with different non-empty results, then all files
\* processed: the second result is the entry.
C10_Witness ==
  /\ mpc = "err_spl_loop"
  /\ nfile = Len(files)
  /\ \E i \in 1..nfile : \E j \in 1..nfile :
       /\ i < j
       /\ files[i].s_name = files[j].s_name
       /\ Metrics[i] # EmptyDict
       /\ Metrics[j] # EmptyDict
       /\ Metrics[i] # Metrics[j]

====
